---- MODULE Spec2Model ----
(***************************************************************************)
(* Model of the booking system: the authoritative slot registry           *)
(* (MockBookingAPI), its callers, and the demo harness that drives it.     *)
(* Time is a discrete clock `now`; every timestamp the code takes with     *)
(* `new Date()` is the value of `now` at that step.  A call to the         *)
(* authority first waits in simulateDelay and is then resumed and runs to  *)
(* its return without interruption (one JavaScript task).  Before the      *)
(* delay a call does nothing but hold its arguments, so an action of the   *)
(* authority is the resumption of a call, with the arguments of the call.  *)
(*                                                                         *)
(* Spec is the authority under arbitrary callers, SpecTest the authority   *)
(* under the demo harness, SpecSys the participants (one BookingStore and  *)
(* GlobalEventBus per page, the pages sharing localStorage and the         *)
(* broadcast channel) over one authority.                                  *)
(***************************************************************************)
EXTENDS Integers, Sequences, FiniteSets, Bags, TLC

\* ---------------------------------------------------------------- bounds
NumSlots == 2          \* slots in the catalogue (24 in initializeMockData)
MaxUsers == 3          \* userCount of simulateConcurrentBooking
MaxTime == 40          \* the clock stops here
TimeStep == 20         \* the clock advances in steps of this many units
MaxTimers == 1         \* auto-release timers armed at once
MaxClicks == 3         \* clickCount of simulateRapidBooking
NumParticipants == 2   \* pages (tabs), each with its own BookingStore and user
NumShownSlots == 1     \* slots of the catalogue the participants click on
MaxChannel == 2        \* events held for one participant; more are lost
MaxRequests == 2       \* bookSlot requests one store has under way at once
MaxStoreTimers == 2    \* pending-timeout timers armed at once
MaxBookings == 2       \* calls of BookingStore.bookSlot made in a run
BusTimeStep == 10      \* step of the clock where the lock table is studied alone
WsTimeStep == 3        \* step of the clock where the push channel is studied alone

\* ------------------------------------------------------ program constants
LockTimeoutAPI == 30   \* setTimeout(..., 30000) and `timeout = 30000`
LockTimeoutBus == 30   \* `now - lockTime <= 30000` of GlobalEventBus
maxReconnectAttempts == 5
reconnectDelay == 3
maxPendingTime == 10   \* config.maxPendingTime

None == "none"
NoTime == 0 - 1
SlotIds == 1 .. NumSlots
UnknownSlot == 1 - 1
ReqSlotIds == SlotIds \cup {UnknownSlot}
ClientUsers == {"u1", "u2"}
OtherUsers == {"user-7"}
Participants == 1 .. NumParticipants
ShownSlots == 1 .. NumShownSlots
StoreUsers == <<"u1", "u2", "u3">>
TestUsers == <<"test-user-1", "test-user-2", "test-user-3", "test-user-4", "test-user-5">>

\* SlotStatus
AVAILABLE == "available"
LOCKED == "locked"
BOOKED == "booked"
EXPIRED == "expired"

\* LockReason
BOOKING_PENDING == "booking_pending"

\* ApiErrorCode
SLOT_NOT_FOUND == "SLOT_NOT_FOUND"
SLOT_ALREADY_BOOKED == "SLOT_ALREADY_BOOKED"
SLOT_LOCKED_BY_OTHER == "SLOT_LOCKED_BY_OTHER"
CONFLICT_DETECTED == "CONFLICT_DETECTED"
TIMESTAMP_EXPIRED == "TIMESTAMP_EXPIRED"

VARIABLES
  slots,                 \* MockBookingAPI.slots: slot id -> TimeSlot
  bookingLocks,          \* MockBookingAPI.bookingLocks: slot id -> lock record
  bookingConfirmations,  \* MockBookingAPI.bookingConfirmations
  timers,                \* bag of armed auto-release timers of lockSlot
  now,                   \* the clock
  ret,                   \* what the call resumed in the last step returned
  test,                  \* the demo harness (ConcurrencyTester / ConcurrencyDemo)
  booking_locks,         \* localStorage 'booking_locks': slot id -> lock record
  storeSlots,            \* BookingStore.slots of each participant
  pendingBookings,       \* clientState.pendingBookings of each participant
  optimisticUpdates,     \* clientState.optimisticUpdates of each participant
  storeTimers,           \* bag of armed pending-timeout timers of the stores
  task,                  \* what each participant's page is in the middle of
  requests,              \* bag of the stores' bookSlot requests under way
  channel,               \* events sent to each participant, not yet delivered
  bookings,              \* how many times BookingStore.bookSlot was called
  ws,                    \* a page's WebSocketService and its socket
  currentUsers           \* BookingStore.currentUser of each participant

registry == <<slots, bookingLocks, bookingConfirmations>>
storeVars == <<storeSlots, pendingBookings, optimisticUpdates, storeTimers>>
sysVars == <<booking_locks, storeVars, task, requests, channel, bookings, ws, currentUsers>>
vars == <<registry, timers, now, ret, test, sysVars>>

\* ------------------------------------------------------------- data model
\* TimeSlot (id, startTime, endTime, price and resourceId never change and
\* are left out; the id is the key of the map).
AvailableSlot ==
  [status |-> AVAILABLE, lockedBy |-> None, lockedAt |-> NoTime,
   lockedReason |-> None, bookedBy |-> None, bookedAt |-> NoTime]

NoSlot ==
  [status |-> None, lockedBy |-> None, lockedAt |-> NoTime,
   lockedReason |-> None, bookedBy |-> None, bookedAt |-> NoTime]

NoLock == [userId |-> None, lockedAt |-> NoTime]
NoConfirmation == [userId |-> None, confirmedAt |-> NoTime]
Call(op, slotId, userId) == [op |-> op, slotId |-> slotId, userId |-> userId]

\* BookingResponse, and the {success, error} results of the other calls.
Response(success, code, slot, hasConflict, by, at) ==
  [success |-> success, code |-> code, slot |-> slot,
   hasConflict |-> hasConflict, conflictBy |-> by, conflictAt |-> at]

NoRet ==
  [op |-> "none", slotId |-> UnknownSlot, userId |-> None,
   resp |-> Response(FALSE, None, NoSlot, FALSE, None, NoTime), list |-> <<>>]

Ret(call, resp) ==
  [op |-> call.op, slotId |-> call.slotId, userId |-> call.userId,
   resp |-> resp, list |-> <<>>]

NoResponse == Response(FALSE, None, NoSlot, FALSE, None, NoTime)

\* The harness: which test runs, on which slot, the user of each of its n
\* requests, the requests in flight, and the result of each request.
\* startAvail records whether the slot was Available when the test began.
NoTest ==
  [kind |-> "none", slotId |-> UnknownSlot, users |-> <<>>, inflight |-> {},
   results |-> <<>>, startAvail |-> FALSE]

\* What a page is in the middle of: nothing, or a read-modify-write of the
\* lock table, between its getLocks() and its setItem().  locks is the table
\* as read; confirm and slot are what bookSlot emits after a release.
Idle ==
  [op |-> "idle", slotId |-> UnknownSlot, locks |-> [s \in SlotIds |-> NoLock],
   confirm |-> FALSE, slot |-> NoSlot]

\* A WebSocketService as constructed: no socket yet.  socket is the state
\* of the WebSocket the service created last.
NoSocket ==
  [socket |-> "none", reconnectAttempts |-> 0, isIntentionallyClosed |-> FALSE,
   heartbeat |-> FALSE, reconnectTimer |-> NoTime]

\* initializeMockData: every slot of the catalogue starts Available.
initializeMockData == [s \in SlotIds |-> AvailableSlot]

\* The services and stores as constructed, the catalogue loaded.
Constructed ==
  /\ slots = initializeMockData
  /\ bookingLocks = [s \in SlotIds |-> NoLock]
  /\ bookingConfirmations = [s \in SlotIds |-> NoConfirmation]
  /\ timers = EmptyBag
  /\ now = 0
  /\ ret = NoRet
  /\ test = NoTest
  /\ booking_locks = [s \in SlotIds |-> NoLock]
  /\ storeSlots = [p \in Participants |-> initializeMockData]
  /\ pendingBookings = [p \in Participants |-> [s \in SlotIds |-> FALSE]]
  /\ optimisticUpdates = [p \in Participants |-> [s \in SlotIds |-> NoSlot]]
  /\ storeTimers = EmptyBag
  /\ task = [p \in Participants |-> Idle]
  /\ requests = EmptyBag
  /\ channel = [p \in Participants |-> <<>>]
  /\ bookings = 0
  /\ ws = NoSocket

\* Every participant has passed the user dialog (handleSetUser).
Init ==
  /\ Constructed
  /\ currentUsers = [p \in Participants |-> StoreUsers[p]]

\* No participant has: currentUser is null in every store.
InitNoUser ==
  /\ Constructed
  /\ currentUsers = [p \in Participants |-> None]


\* ------------------------------------------------- MockBookingAPI: bookSlot
\* `slot.status === SlotStatus.BOOKED`
NeverAlreadyBooked(slot) == FALSE
AlreadyBooked(slot) == slot.status = BOOKED

\* `slot.status === SlotStatus.LOCKED && slot.lockedBy !== request.userId`
NeverLockedByOther(slot, userId) == FALSE
LockedByOther(slot, userId) == slot.status = LOCKED /\ slot.lockedBy # userId

\* confirmedSlot: the slot as booked for the injected third party.
ConfirmedSlotUnnamed(slot, other, t) ==
  [slot EXCEPT !.status = BOOKED, !.bookedAt = t,
               !.lockedBy = None, !.lockedAt = NoTime]
ConfirmedSlot(slot, other, t) ==
  [slot EXCEPT !.status = BOOKED, !.bookedBy = other, !.bookedAt = t,
               !.lockedBy = None, !.lockedAt = NoTime]

\* bookedSlot: the slot as booked for the requester.  The spread keeps every
\* field it does not name, lockedReason among them.
BookedSlotKeepingLock(slot, userId, t) ==
  [slot EXCEPT !.status = BOOKED, !.bookedBy = userId, !.bookedAt = t]
BookedSlot(slot, userId, t) ==
  [slot EXCEPT !.status = BOOKED, !.bookedBy = userId, !.bookedAt = t,
               !.lockedBy = None, !.lockedAt = NoTime]

\* The body of bookSlot after its delay, on registry value S at time t.
\* preempt is the outcome of `Math.random() < 0.1`, other the user id drawn
\* for the injected third party.  write: the slot is stored; confirm: a
\* confirmation is recorded.
BookSlotResult(S, call, preempt, other, t) ==
  IF call.slotId \notin SlotIds
  THEN [resp |-> Response(FALSE, SLOT_NOT_FOUND, NoSlot, FALSE, None, NoTime),
        write |-> FALSE, slot |-> NoSlot, confirm |-> FALSE]
  ELSE
    LET slot == S[call.slotId] IN
    IF AlreadyBooked(slot)
    THEN [resp |-> Response(FALSE, SLOT_ALREADY_BOOKED, NoSlot, TRUE,
                            slot.bookedBy, slot.bookedAt),
          write |-> FALSE, slot |-> slot, confirm |-> FALSE]
    ELSE IF LockedByOther(slot, call.userId)
    THEN [resp |-> Response(FALSE, SLOT_LOCKED_BY_OTHER, NoSlot, FALSE, None, NoTime),
          write |-> FALSE, slot |-> slot, confirm |-> FALSE]
    ELSE IF preempt
    THEN LET confirmedSlot == ConfirmedSlot(slot, other, t) IN
         [resp |-> Response(FALSE, CONFLICT_DETECTED, NoSlot, TRUE,
                            other, confirmedSlot.bookedAt),
          write |-> TRUE, slot |-> confirmedSlot, confirm |-> FALSE]
    ELSE LET bookedSlot == BookedSlot(slot, call.userId, t) IN
         [resp |-> Response(TRUE, None, bookedSlot, FALSE, None, NoTime),
          write |-> TRUE, slot |-> bookedSlot, confirm |-> TRUE]

\* A bookSlot call is resumed and runs to its return.
BookSlotBody(call) ==
  /\ \E preempt \in BOOLEAN, other \in OtherUsers :
       LET r == BookSlotResult(slots, call, preempt, other, now) IN
       /\ slots' = IF r.write THEN [slots EXCEPT ![call.slotId] = r.slot] ELSE slots
       /\ bookingConfirmations' =
            IF r.confirm
            THEN [bookingConfirmations EXCEPT ![call.slotId] =
                    [userId |-> call.userId, confirmedAt |-> r.slot.bookedAt]]
            ELSE bookingConfirmations
       /\ ret' = Ret(call, r.resp)
  /\ UNCHANGED <<bookingLocks, timers, now>>

\* -------------------------------------------- MockBookingAPI: cancelBooking
CancelBookingByAnyone(S, call) ==
  IF call.slotId \notin SlotIds THEN [success |-> FALSE, slot |-> NoSlot]
  ELSE
    LET slot == S[call.slotId] IN
    IF slot.status # BOOKED THEN [success |-> FALSE, slot |-> slot]
    ELSE [success |-> TRUE,
          slot |-> [slot EXCEPT !.status = AVAILABLE, !.bookedBy = None,
                                !.bookedAt = NoTime]]

CancelBookingResult(S, call) ==
  IF call.slotId \notin SlotIds THEN [success |-> FALSE, slot |-> NoSlot]
  ELSE
    LET slot == S[call.slotId] IN
    IF slot.bookedBy # call.userId THEN [success |-> FALSE, slot |-> slot]
    ELSE IF slot.status # BOOKED THEN [success |-> FALSE, slot |-> slot]
    ELSE [success |-> TRUE,
          slot |-> [slot EXCEPT !.status = AVAILABLE, !.bookedBy = None,
                                !.bookedAt = NoTime]]

CancelBookingBody(call) ==
  /\ LET r == CancelBookingResult(slots, call) IN
     /\ slots' = IF r.success THEN [slots EXCEPT ![call.slotId] = r.slot] ELSE slots
     /\ bookingConfirmations' =
          IF r.success
          THEN [bookingConfirmations EXCEPT ![call.slotId] = NoConfirmation]
          ELSE bookingConfirmations
     /\ ret' = Ret(call, Response(r.success, None, NoSlot, FALSE, None, NoTime))
  /\ UNCHANGED <<bookingLocks, timers, now>>

\* ------------------------------------------------- MockBookingAPI: lockSlot
LockSlotResult(S, L, call, t) ==
  IF call.slotId \notin SlotIds THEN [success |-> FALSE, slot |-> NoSlot]
  ELSE
    LET slot == S[call.slotId]
        existingLock == L[call.slotId] IN
    IF slot.status # AVAILABLE THEN [success |-> FALSE, slot |-> slot]
    ELSE IF existingLock # NoLock /\ existingLock.userId # call.userId
    THEN [success |-> FALSE, slot |-> slot]
    ELSE [success |-> TRUE,
          slot |-> [slot EXCEPT !.status = LOCKED, !.lockedBy = call.userId,
                                !.lockedAt = t, !.lockedReason = BOOKING_PENDING]]

\* A timer armed by setTimeout.  One that falls due after the clock has
\* stopped never fires and is not recorded.
Timer(slotId, userId, due) == [slotId |-> slotId, userId |-> userId, due |-> due]

LockSlotBody(call) ==
  /\ LET r == LockSlotResult(slots, bookingLocks, call, now) IN
     /\ (r.success /\ now + LockTimeoutAPI <= MaxTime) =>
          BagCardinality(timers) < MaxTimers
     /\ slots' = IF r.success THEN [slots EXCEPT ![call.slotId] = r.slot] ELSE slots
     /\ bookingLocks' =
          IF r.success
          THEN [bookingLocks EXCEPT ![call.slotId] =
                  [userId |-> call.userId, lockedAt |-> now]]
          ELSE bookingLocks
     /\ timers' =
          IF r.success /\ now + LockTimeoutAPI <= MaxTime
          THEN timers (+) SetToBag({Timer(call.slotId, call.userId,
                                          now + LockTimeoutAPI)})
          ELSE timers
     /\ ret' = Ret(call, Response(r.success, None, NoSlot, FALSE, None, NoTime))
  /\ UNCHANGED <<bookingConfirmations, now>>

\* ----------------------------------------------- MockBookingAPI: unlockSlot
UnlockedSlot(slot) ==
  [slot EXCEPT !.status = AVAILABLE, !.lockedBy = None, !.lockedAt = NoTime,
               !.lockedReason = None]

UnlockSlotWhateverStatus(S, L, slotId, userId) ==
  IF slotId \notin SlotIds \/ L[slotId] = NoLock
  THEN [success |-> FALSE, slots |-> S, locks |-> L]
  ELSE IF L[slotId].userId # userId
  THEN [success |-> FALSE, slots |-> S, locks |-> L]
  ELSE [success |-> TRUE,
        slots |-> [S EXCEPT ![slotId] = UnlockedSlot(S[slotId])],
        locks |-> [L EXCEPT ![slotId] = NoLock]]

UnlockSlotResult(S, L, slotId, userId) ==
  IF slotId \notin SlotIds \/ L[slotId] = NoLock
  THEN [success |-> FALSE, slots |-> S, locks |-> L]
  ELSE IF L[slotId].userId # userId
  THEN [success |-> FALSE, slots |-> S, locks |-> L]
  ELSE [success |-> TRUE,
        slots |-> IF S[slotId].status = LOCKED /\ S[slotId].bookedBy = None
                  THEN [S EXCEPT ![slotId] = UnlockedSlot(S[slotId])]
                  ELSE S,
        locks |-> [L EXCEPT ![slotId] = NoLock]]

UnlockSlotBody(call) ==
  /\ LET r == UnlockSlotResult(slots, bookingLocks, call.slotId, call.userId) IN
     /\ slots' = r.slots
     /\ bookingLocks' = r.locks
     /\ ret' = Ret(call, Response(r.success, None, NoSlot, FALSE, None, NoTime))
  /\ UNCHANGED <<bookingConfirmations, timers, now>>

\* The timer armed by lockSlot fires, no earlier than it is due, and calls
\* unlockSlot(slotId, userId), which runs after its own delay.
AutoRelease ==
  \E tm \in BagToSet(timers) :
    /\ tm.due <= now
    /\ timers' = timers (-) SetToBag({tm})
    /\ LET r == UnlockSlotResult(slots, bookingLocks, tm.slotId, tm.userId) IN
       /\ slots' = r.slots
       /\ bookingLocks' = r.locks
       /\ ret' = Ret(Call("autoRelease", tm.slotId, tm.userId),
                     Response(r.success, None, NoSlot, FALSE, None, NoTime))
    /\ UNCHANGED <<bookingConfirmations, now, test, sysVars>>

\* ---------------------------------------- MockBookingAPI: getAvailableSlots
LockExpired(lock, t) == lock # NoLock /\ t - lock.lockedAt > LockTimeoutAPI

cleanupExpiredLocks(S, L, t) ==
  [slots |-> [s \in SlotIds |->
                IF LockExpired(L[s], t) /\ S[s].status = LOCKED /\ S[s].bookedBy = None
                THEN UnlockedSlot(S[s]) ELSE S[s]],
   locks |-> [s \in SlotIds |-> IF LockExpired(L[s], t) THEN NoLock ELSE L[s]]]

\* The list is taken (the slot objects of the map) before the cleanup, which
\* stores new objects: the list returned holds the values from before it.
GetAvailableSlotsBody(call) ==
  /\ LET r == cleanupExpiredLocks(slots, bookingLocks, now) IN
     /\ slots' = r.slots
     /\ bookingLocks' = r.locks
  /\ ret' = [Ret(call, Response(TRUE, None, NoSlot, FALSE, None, NoTime))
               EXCEPT !.list = slots]
  /\ UNCHANGED <<bookingConfirmations, timers, now>>

\* ------------------------------------------------------- callers and clock
\* Any caller's call is resumed, with any slot id (known or not) and user.
bookSlot ==
  \E s \in ReqSlotIds, u \in ClientUsers :
    BookSlotBody(Call("bookSlot", s, u)) /\ UNCHANGED <<test, sysVars>>

cancelBooking ==
  \E s \in ReqSlotIds, u \in ClientUsers :
    CancelBookingBody(Call("cancelBooking", s, u)) /\ UNCHANGED <<test, sysVars>>

\* Under Spec no lockSlot is called while a timer of an earlier one is
\* outstanding; SpecLock below has such calls.
lockSlot ==
  \E s \in ReqSlotIds, u \in ClientUsers :
    /\ BagCardinality(timers) < MaxTimers
    /\ LockSlotBody(Call("lockSlot", s, u))
    /\ UNCHANGED <<test, sysVars>>

unlockSlot ==
  \E s \in ReqSlotIds, u \in ClientUsers :
    UnlockSlotBody(Call("unlockSlot", s, u)) /\ UNCHANGED <<test, sysVars>>

getAvailableSlots ==
  /\ GetAvailableSlotsBody(Call("getAvailableSlots", UnknownSlot, None))
  /\ UNCHANGED <<test, sysVars>>

\* Time passes.
Tick ==
  /\ now + TimeStep <= MaxTime
  /\ \A p \in Participants : task[p] = Idle
  /\ now' = now + TimeStep
  /\ ret' = NoRet
  /\ UNCHANGED <<registry, timers, test, sysVars>>

Next ==
  \/ bookSlot
  \/ cancelBooking
  \/ lockSlot
  \/ unlockSlot
  \/ getAvailableSlots
  \/ AutoRelease
  \/ Tick

Spec == Init /\ [][Next]_vars

\* ------------------------------------------- the authority's locks alone
\* testLockTimeout locks a slot and reads the slots again later;
\* cancelAllPendingBookings unlocks.  A slot may be locked again while the
\* timer of an earlier lockSlot is still to fire.
testLockTimeout ==
  \E s \in SlotIds, u \in ClientUsers :
    LockSlotBody(Call("lockSlot", s, u)) /\ UNCHANGED <<test, sysVars>>

NextLock ==
  \/ testLockTimeout
  \/ unlockSlot
  \/ getAvailableSlots
  \/ AutoRelease
  \/ Tick

SpecLock == Init /\ [][NextLock]_vars


\* ------------------------------------------------------------ demo harness
StartTest(kind, s, users, inflight) ==
  /\ test.kind = "none"
  /\ test' = [kind |-> kind, slotId |-> s, users |-> users, inflight |-> inflight,
              results |-> [i \in 1 .. Len(users) |-> NoResponse],
              startAvail |-> s \in SlotIds /\ slots[s].status = AVAILABLE]
  /\ ret' = NoRet
  /\ UNCHANGED <<registry, timers, now, sysVars>>

\* Request i of the running test is resumed; left is what is in flight after.
TestThen(i, left) ==
  /\ i \in test.inflight
  /\ BookSlotBody(Call("bookSlot", test.slotId, test.users[i]))
  /\ test' = [test EXCEPT !.results[i] = ret'.resp, !.inflight = left]
  /\ UNCHANGED sysVars

\* ConcurrencyTester.simulateConcurrentBooking: userCount requests of users
\* test-user-1 .. test-user-n are issued at once and awaited together.
simulateConcurrentBooking ==
  \E s \in ReqSlotIds, n \in 1 .. MaxUsers :
    StartTest("concurrent", s, SubSeq(TestUsers, 1, n), 1 .. n)

concurrentThen ==
  /\ test.kind = "concurrent"
  /\ \E i \in test.inflight : TestThen(i, test.inflight \ {i})

\* ConcurrencyTester.simulateRapidBooking: clickCount requests of one user,
\* each issued after the one before it has returned.
simulateRapidBooking ==
  \E s \in ReqSlotIds, n \in 1 .. MaxClicks :
    StartTest("rapid", s, [i \in 1 .. n |-> "rapid-user"], {1})

NextInLine(i) == IF i < Len(test.users) THEN {i + 1} ELSE {}

rapidThen ==
  /\ test.kind = "rapid"
  /\ \E i \in test.inflight : TestThen(i, NextInLine(i))

\* ConcurrencyDemo.runCrossTabTest: tab1-user's request, then tab2-user's.
runCrossTabTest ==
  \E s \in ReqSlotIds : StartTest("crosstab", s, <<"tab1-user", "tab2-user">>, {1})

crossTabThen ==
  /\ test.kind = "crosstab"
  /\ \E i \in test.inflight : TestThen(i, NextInLine(i))

\* The test returns its results to the page.
TestDone ==
  /\ test.kind # "none"
  /\ test.inflight = {}
  /\ test' = NoTest
  /\ ret' = NoRet
  /\ UNCHANGED <<registry, timers, now, sysVars>>

\* MockBookingAPI.reset (the page's reset button, between tests).
reset ==
  /\ test.kind = "none"
  /\ slots' = initializeMockData
  /\ bookingLocks' = [s \in SlotIds |-> NoLock]
  /\ bookingConfirmations' = [s \in SlotIds |-> NoConfirmation]
  /\ ret' = NoRet
  /\ UNCHANGED <<timers, now, test, sysVars>>

NextTest ==
  \/ simulateConcurrentBooking
  \/ concurrentThen
  \/ simulateRapidBooking
  \/ rapidThen
  \/ runCrossTabTest
  \/ crossTabThen
  \/ TestDone
  \/ reset
  \/ Tick

SpecTest == Init /\ [][NextTest]_vars


\* ------------------------------------------------- GlobalEventBus: lock table
\* acquireLock on the table as read: whether the lock is granted, the table
\* to write back (write), and whether lock_acquired is emitted.
\* `now - lockTime <= 30000 && existing.userId !== userId`
NeverLiveForOther(existing, userId, t) == FALSE
LiveForOtherForever(existing, userId, t) ==
  existing # NoLock /\ existing.userId # userId
LiveForOther(existing, userId, t) ==
  /\ existing # NoLock
  /\ t - existing.lockedAt <= LockTimeoutBus
  /\ existing.userId # userId

\* The record written when the same user acquires again.
RenewedKeepingTime(existing, userId, t) == existing
Renewed(existing, userId, t) == [userId |-> userId, lockedAt |-> t]

AcquireLockResult(locks, slotId, userId, t) ==
  LET existing == locks[slotId]
      taken == [locks EXCEPT ![slotId] = [userId |-> userId, lockedAt |-> t]]
      renewed == [locks EXCEPT ![slotId] = Renewed(existing, userId, t)] IN
  IF LiveForOther(existing, userId, t)
  THEN [granted |-> FALSE, write |-> FALSE, locks |-> locks, emit |-> FALSE]
  ELSE IF existing # NoLock /\ existing.userId = userId
  THEN [granted |-> TRUE, write |-> TRUE, locks |-> renewed, emit |-> FALSE]
  ELSE [granted |-> TRUE, write |-> TRUE, locks |-> taken, emit |-> TRUE]

\* releaseLock(slotId, userId) on the table as read.
ReleaseLockResult(locks, slotId, userId) ==
  IF locks[slotId] # NoLock /\ (userId = None \/ locks[slotId].userId = userId)
  THEN [released |-> TRUE, locks |-> [locks EXCEPT ![slotId] = NoLock],
        lockedBy |-> locks[slotId].userId]
  ELSE [released |-> FALSE, locks |-> locks, lockedBy |-> None]

\* getLock's test of the record it read: `now - lockTime > 30000`.
Expired(lock, t) == lock # NoLock /\ t - lock.lockedAt > LockTimeoutBus

\* cleanupLocks on the table as read.
CleanupLocksResult(locks, t) ==
  [changed |-> \E s \in SlotIds : Expired(locks[s], t),
   locks |-> [s \in SlotIds |-> IF Expired(locks[s], t) THEN NoLock ELSE locks[s]]]

\* ------------------------------------------------------ GlobalEventBus: events
\* An event as sent: once on the BroadcastChannel and once as a storage
\* event, so a peer's listeners run for it twice (copies).
Event(type, slotId, userId, slot) ==
  [type |-> type, slotId |-> slotId, userId |-> userId, slot |-> slot, copies |-> 2,
   from |-> 0]

\* The session tag of page p's bus.
sessionId(p) == p
Tagged(e, p) == [e EXCEPT !.from = sessionId(p)]

\* send: the event goes to every other page; none is kept for a page whose
\* channel is full.
send(ch, p, e) ==
  [q \in Participants |->
     IF q # p /\ Len(ch[q]) < MaxChannel THEN Append(ch[q], Tagged(e, p)) ELSE ch[q]]

\* send over a transport that hands the sender its own copies too: the
\* case `from !== this.sessionId` is there for.
sendEchoed(ch, p, e) ==
  [q \in Participants |->
     IF Len(ch[q]) < MaxChannel THEN Append(ch[q], Tagged(e, p)) ELSE ch[q]]

\* `from !== this.sessionId` in channel.onmessage and the storage listener.
FromAnyone(e, p) == TRUE
FromOther(e, p) == e.from # sessionId(p)

sendIf(cond, ch, p, e) == IF cond THEN send(ch, p, e) ELSE ch

\* ---------------------------------------------------------------- BookingStore
currentUser(p) == currentUsers[p]

\* The store of participant p as one record.
Store(p) ==
  [slots |-> storeSlots[p], pending |-> pendingBookings[p],
   optimistic |-> optimisticUpdates[p]]

SetStore(p, st) ==
  /\ storeSlots' = [storeSlots EXCEPT ![p] = st.slots]
  /\ pendingBookings' = [pendingBookings EXCEPT ![p] = st.pending]
  /\ optimisticUpdates' = [optimisticUpdates EXCEPT ![p] = st.optimistic]

clearOptimisticUpdate(st, slotId) ==
  [st EXCEPT !.optimistic[slotId] = NoSlot, !.pending[slotId] = FALSE]

\* The optimistic slot is what is cached "for rollback".
applyOptimisticUpdate(st, slotId, optimisticSlot) ==
  [st EXCEPT !.slots[slotId] = optimisticSlot,
             !.optimistic[slotId] = optimisticSlot,
             !.pending[slotId] = TRUE]

handleBookingFailure(st, slotId) ==
  LET originalSlot == st.optimistic[slotId] IN
  IF originalSlot # NoSlot
  THEN clearOptimisticUpdate([st EXCEPT !.slots[slotId] = originalSlot], slotId)
  ELSE st

handleBookingTimeout(st, slotId) ==
  LET originalSlot == st.optimistic[slotId]
      revertedSlot == [originalSlot EXCEPT !.status = AVAILABLE,
                                           !.lockedBy = None, !.lockedAt = NoTime] IN
  IF originalSlot # NoSlot
  THEN clearOptimisticUpdate([st EXCEPT !.slots[slotId] = revertedSlot], slotId)
  ELSE st

\* The listeners of setupGlobalEventListeners, run on event e at time t.
onLockAcquired(st, p, e, t) ==
  IF e.userId # currentUser(p) /\ st.slots[e.slotId].status = AVAILABLE
  THEN [st EXCEPT !.slots[e.slotId] =
          [@ EXCEPT !.status = LOCKED, !.lockedBy = e.userId, !.lockedAt = t]]
  ELSE st

onLockReleasedAnyStatus(st, e) ==
  [st EXCEPT !.slots[e.slotId] =
     [@ EXCEPT !.status = AVAILABLE, !.lockedBy = None, !.lockedAt = NoTime]]

onLockReleased(st, e) ==
  IF st.slots[e.slotId].status = LOCKED
  THEN [st EXCEPT !.slots[e.slotId] =
          [@ EXCEPT !.status = AVAILABLE, !.lockedBy = None, !.lockedAt = NoTime]]
  ELSE st

onBookingConfirmed(st, p, e) ==
  IF e.userId # currentUser(p)
  THEN [st EXCEPT !.slots[e.slotId] = e.slot, !.optimistic[e.slotId] = NoSlot]
  ELSE st

\* emitLocal: the listeners registered for the event's type.
emitLocal(st, p, e, t) ==
  CASE e.type = "lock_acquired" -> onLockAcquired(st, p, e, t)
    [] e.type = "lock_released" -> onLockReleased(st, e)
    [] e.type = "booking_confirmed" -> onBookingConfirmed(st, p, e)
    [] OTHER -> st

emitLocalIf(cond, st, p, e, t) == IF cond THEN emitLocal(st, p, e, t) ELSE st

Request(p, slotId, stage, resp) ==
  [p |-> p, slotId |-> slotId, stage |-> stage, resp |-> resp]

RequestsOf(p) == {r \in BagToSet(requests) : r.p = p}
InFlight(p) == BagCardinality([r \in RequestsOf(p) |-> CopiesIn(r, requests)])
StoreTimer(p, slotId, due) == [p |-> p, slotId |-> slotId, due |-> due]

\* The checks bookSlot makes before it calls acquireLock: a current user,
\* a slot the store knows, and that slot Available in the store's view.
BookableOnAnyStatus(user, known, slotId) == user # None /\ slotId \in DOMAIN known
Bookable(user, known, slotId) ==
  /\ user # None
  /\ slotId \in DOMAIN known
  /\ known[slotId].status = AVAILABLE

\* The error bookSlot returns when a check fails.
Refusal(user, known, slotId) ==
  IF user = None THEN "not logged in"
  ELSE IF slotId \notin DOMAIN known THEN "no such slot"
  ELSE "not bookable"

\* BookingStore.setCurrentUser, as App's handleSetUser calls it.
setCurrentUser ==
  \E p \in Participants :
    /\ currentUsers' = [currentUsers EXCEPT ![p] = StoreUsers[p]]
    /\ ret' = NoRet
    /\ UNCHANGED <<registry, timers, now, test, booking_locks, storeVars, task,
                   requests, channel, bookings, ws>>

\* BookingStore.bookSlot returning at one of its checks.
bookSlotRefused ==
  \E p \in Participants, s \in ReqSlotIds :
    /\ task[p] = Idle
    /\ ~Bookable(currentUser(p), storeSlots[p], s)
    /\ ret' = Ret(Call("store.bookSlot", s, currentUser(p)),
                  Response(FALSE, Refusal(currentUser(p), storeSlots[p], s),
                           NoSlot, FALSE, None, NoTime))
    /\ UNCHANGED <<registry, timers, now, test, sysVars>>

\* BookingStore.bookSlot, from the call to acquireLock's getLocks(): the
\* slot is Available in the store's view, and the lock table is read.
storeBookSlot ==
  \E p \in Participants, s \in ShownSlots :
    /\ task[p] = Idle
    /\ Bookable(currentUser(p), storeSlots[p], s)
    /\ InFlight(p) < MaxRequests
    /\ bookings < MaxBookings
    /\ bookings' = bookings + 1
    /\ BagCardinality(storeTimers) < MaxStoreTimers
    /\ task' = [task EXCEPT ![p] = [Idle EXCEPT !.op = "acquireLock", !.slotId = s,
                                                !.locks = booking_locks]]
    /\ ret' = NoRet
    /\ UNCHANGED <<registry, timers, now, test, booking_locks, storeVars,
                   requests, channel, ws, currentUsers>>

\* ... from acquireLock's decision on the table it read to the await of
\* api.bookSlot: the table is written back, lock_acquired is emitted, the
\* optimistic update applied, its timer armed and the request sent.  When
\* the lock is refused bookSlot returns and nothing changes.
acquireLockThen ==
  \E p \in Participants :
    /\ task[p].op = "acquireLock"
    /\ LET s == task[p].slotId
           a == AcquireLockResult(task[p].locks, s, currentUser(p), now)
           e == Event("lock_acquired", s, currentUser(p), NoSlot)
           slot == storeSlots[p][s]
           optimisticSlot == [slot EXCEPT !.status = LOCKED,
                                          !.lockedBy = currentUser(p),
                                          !.lockedAt = now] IN
       /\ booking_locks' = IF a.write THEN a.locks ELSE booking_locks
       /\ channel' = sendIf(a.emit, channel, p, e)
       /\ SetStore(p, IF a.granted
                      THEN applyOptimisticUpdate(
                             emitLocalIf(a.emit, Store(p), p, e, now), s, optimisticSlot)
                      ELSE Store(p))
       /\ storeTimers' =
            IF a.granted /\ now + maxPendingTime <= MaxTime
            THEN storeTimers (+) SetToBag({StoreTimer(p, s, now + maxPendingTime)})
            ELSE storeTimers
       /\ requests' =
            IF a.granted
            THEN requests (+) SetToBag({Request(p, s, "sent", NoResponse)})
            ELSE requests
    /\ task' = [task EXCEPT ![p] = Idle]
    /\ ret' = NoRet
    /\ UNCHANGED <<registry, timers, now, test, bookings, ws, currentUsers>>

\* The authority resumes the bookSlot call of a store's request.
apiBookSlot ==
  \E r \in BagToSet(requests) :
    /\ r.stage = "sent"
    /\ BookSlotBody(Call("bookSlot", r.slotId, currentUser(r.p)))
    /\ requests' = (requests (-) SetToBag({r}))
                     (+) SetToBag({Request(r.p, r.slotId, "answered", ret'.resp)})
    /\ UNCHANGED <<test, booking_locks, storeVars, task, channel, bookings, ws, currentUsers>>

\* The call of api.bookSlot rejects (a transport failure): the catch branch
\* of bookSlot hands handleBookingFailure a TIMESTAMP_EXPIRED failure and
\* goes on as for a refusal.
Thrown == Response(FALSE, TIMESTAMP_EXPIRED, NoSlot, FALSE, None, NoTime)

apiThrows ==
  \E r \in BagToSet(requests) :
    /\ r.stage = "sent"
    /\ requests' = (requests (-) SetToBag({r}))
                     (+) SetToBag({Request(r.p, r.slotId, "answered", Thrown)})
    /\ ret' = NoRet
    /\ UNCHANGED <<registry, timers, now, test, booking_locks, storeVars,
                   task, channel, bookings, ws, currentUsers>>

\* bookSlot continues with the response, up to releaseLock's getLocks().
bookSlotThen ==
  \E p \in Participants : \E r \in RequestsOf(p) :
    /\ task[p] = Idle
    /\ r.stage = "answered"
    /\ requests' = requests (-) SetToBag({r})
    /\ SetStore(p, IF r.resp.success
                   THEN clearOptimisticUpdate(
                          [Store(p) EXCEPT !.slots[r.slotId] = r.resp.slot], r.slotId)
                   ELSE handleBookingFailure(Store(p), r.slotId))
    /\ task' = [task EXCEPT ![p] = [op |-> "releaseLock", slotId |-> r.slotId,
                                    locks |-> booking_locks,
                                    confirm |-> r.resp.success, slot |-> r.resp.slot]]
    /\ ret' = NoRet
    /\ UNCHANGED <<registry, timers, now, test, booking_locks, storeTimers, channel, bookings, ws, currentUsers>>

\* ... from releaseLock's decision on the table it read to bookSlot's
\* return: the table is written back and lock_released emitted if the
\* record was the user's, then booking_confirmed on success.
releaseLockThen ==
  \E p \in Participants :
    /\ task[p].op = "releaseLock"
    /\ LET s == task[p].slotId
           r == ReleaseLockResult(task[p].locks, s, currentUser(p))
           released == Event("lock_released", s, r.lockedBy, NoSlot)
           confirmed == Event("booking_confirmed", s, currentUser(p), task[p].slot) IN
       /\ booking_locks' = IF r.released THEN r.locks ELSE booking_locks
       /\ channel' = sendIf(task[p].confirm,
                            sendIf(r.released, channel, p, released), p, confirmed)
       /\ SetStore(p, emitLocalIf(task[p].confirm,
                        emitLocalIf(r.released, Store(p), p, released, now),
                        p, confirmed, now))
    /\ task' = [task EXCEPT ![p] = Idle]
    /\ ret' = NoRet
    /\ UNCHANGED <<registry, timers, now, test, storeTimers, requests, bookings, ws, currentUsers>>

\* The timer of applyOptimisticUpdate fires, no earlier than it is due.
pendingTimeout ==
  \E tm \in BagToSet(storeTimers) :
    /\ task[tm.p] = Idle
    /\ tm.due <= now
    /\ storeTimers' = storeTimers (-) SetToBag({tm})
    /\ SetStore(tm.p, IF pendingBookings[tm.p][tm.slotId]
                      THEN handleBookingTimeout(Store(tm.p), tm.slotId)
                      ELSE Store(tm.p))
    /\ ret' = NoRet
    /\ UNCHANGED <<registry, timers, now, test, booking_locks, task, requests, channel, bookings, ws, currentUsers>>

\* A page receives the next copy of the event at the head of its channel
\* (channel.onmessage, then the storage listener) and runs its listeners.
deliver ==
  \E p \in Participants :
    /\ task[p] = Idle
    /\ channel[p] # <<>>
    /\ LET e == Head(channel[p]) IN
       /\ SetStore(p, IF FromOther(e, p) THEN emitLocal(Store(p), p, e, now)
                      ELSE Store(p))
       /\ channel' = [channel EXCEPT ![p] =
                        IF e.copies > 1
                        THEN <<[e EXCEPT !.copies = e.copies - 1]>> \o Tail(@)
                        ELSE Tail(@)]
    /\ ret' = NoRet
    /\ UNCHANGED <<registry, timers, now, test, booking_locks, storeTimers,
                   task, requests, bookings, ws, currentUsers>>

\* An event never reaches a page (the page was not listening).
lose ==
  \E p \in Participants :
    /\ channel[p] # <<>>
    /\ channel' = [channel EXCEPT ![p] = Tail(@)]
    /\ ret' = NoRet
    /\ UNCHANGED <<registry, timers, now, test, booking_locks, storeVars,
                   task, requests, bookings, ws, currentUsers>>

\* A participant's user cancels through the authority's cancelBooking.
userCancels ==
  \E p \in Participants, s \in ShownSlots :
    /\ CancelBookingBody(Call("cancelBooking", s, currentUser(p)))
    /\ UNCHANGED <<test, sysVars>>

NextSys ==
  \/ storeBookSlot
  \/ acquireLockThen
  \/ apiBookSlot
  \/ apiThrows
  \/ bookSlotThen
  \/ releaseLockThen
  \/ pendingTimeout
  \/ deliver
  \/ lose
  \/ userCancels
  \/ Tick

SpecSys == Init /\ [][NextSys]_vars


\* ------------------------------------------- GlobalEventBus under its callers
\* The pages call the bus directly (ConcurrencyDemo, the stores' interval).
\* A call reads the table with getLocks(); other pages may run before it
\* decides and writes the table back.  What a call returns is recorded with
\* the record it read for its slot.
BusRet(op, p, slotId, success, read) ==
  [Ret(Call(op, slotId, currentUser(p)),
       Response(success, None, NoSlot, FALSE, None, NoTime))
     EXCEPT !.list = <<read>>]

\* A page calls op and reads the table.
BusCall(op, p, s) ==
  /\ task[p] = Idle
  /\ task' = [task EXCEPT ![p] = [Idle EXCEPT !.op = op, !.slotId = s,
                                              !.locks = booking_locks]]
  /\ UNCHANGED <<registry, timers, now, test, booking_locks, storeVars,
                 requests, channel, bookings, ws, currentUsers>>

acquireLock == \E p \in Participants, s \in ShownSlots : BusCall("bus.acquireLock", p, s) /\ ret' = NoRet

acquireLockReturn ==
  \E p \in Participants :
    /\ task[p].op = "bus.acquireLock"
    /\ LET s == task[p].slotId
           a == AcquireLockResult(task[p].locks, s, currentUser(p), now)
           e == Event("lock_acquired", s, currentUser(p), NoSlot) IN
       /\ booking_locks' = IF a.write THEN a.locks ELSE booking_locks
       /\ channel' = sendIf(a.emit, channel, p, e)
       /\ SetStore(p, emitLocalIf(a.emit, Store(p), p, e, now))
       /\ ret' = BusRet("acquireLock", p, s, a.granted, task[p].locks[s])
    /\ task' = [task EXCEPT ![p] = Idle]
    /\ UNCHANGED <<registry, timers, now, test, storeTimers, requests, bookings, ws, currentUsers>>

releaseLock == \E p \in Participants, s \in ShownSlots : BusCall("bus.releaseLock", p, s) /\ ret' = NoRet

\* The write-back and broadcast of releaseLock(slotId, userId) by page p.
ReleaseLockReturn(p, userId) ==
  LET s == task[p].slotId
      r == ReleaseLockResult(task[p].locks, s, userId)
      e == Event("lock_released", s, r.lockedBy, NoSlot) IN
  /\ booking_locks' = IF r.released THEN r.locks ELSE booking_locks
  /\ channel' = sendIf(r.released, channel, p, e)
  /\ SetStore(p, emitLocalIf(r.released, Store(p), p, e, now))
  /\ task' = [task EXCEPT ![p] = Idle]
  /\ UNCHANGED <<registry, timers, now, test, storeTimers, requests, bookings, ws, currentUsers>>

releaseLockReturn ==
  \E p \in Participants :
    /\ task[p].op = "bus.releaseLock"
    /\ ReleaseLockReturn(p, currentUser(p))
    /\ ret' = BusRet("releaseLock", p, task[p].slotId,
                     ReleaseLockResult(task[p].locks, task[p].slotId,
                                       currentUser(p)).released,
                     task[p].locks[task[p].slotId])

getLock == \E p \in Participants, s \in ShownSlots : BusCall("bus.getLock", p, s) /\ ret' = NoRet

\* getLock returns the record it read, or, the record being expired, calls
\* releaseLock(slotId), which reads the table again.
getLockThen ==
  \E p \in Participants :
    /\ task[p].op = "bus.getLock"
    /\ LET lock == task[p].locks[task[p].slotId] IN
       /\ task' = [task EXCEPT ![p] =
                     IF Expired(lock, now)
                     THEN [@ EXCEPT !.op = "bus.getLock.release",
                                    !.locks = booking_locks]
                     ELSE Idle]
       /\ ret' = IF Expired(lock, now) THEN NoRet
                 ELSE BusRet("getLock", p, task[p].slotId, lock # NoLock, lock)
    /\ UNCHANGED <<registry, timers, now, test, booking_locks, storeVars,
                   requests, channel, bookings, ws, currentUsers>>

getLockReturn ==
  \E p \in Participants :
    /\ task[p].op = "bus.getLock.release"
    /\ ReleaseLockReturn(p, None)
    /\ ret' = BusRet("getLock", p, task[p].slotId, FALSE,
                     task[p].locks[task[p].slotId])

cleanupLocks == \E p \in Participants : BusCall("bus.cleanupLocks", p, UnknownSlot) /\ ret' = NoRet

cleanupLocksReturn ==
  \E p \in Participants :
    /\ task[p].op = "bus.cleanupLocks"
    /\ LET c == CleanupLocksResult(task[p].locks, now)
           e == Event("locks_cleaned", UnknownSlot, None, NoSlot) IN
       /\ booking_locks' = IF c.changed THEN c.locks ELSE booking_locks
       /\ channel' = sendIf(c.changed, channel, p, e)
       /\ SetStore(p, emitLocalIf(c.changed, Store(p), p, e, now))
       /\ ret' = BusRet("cleanupLocks", p, UnknownSlot, c.changed, NoLock)
    /\ task' = [task EXCEPT ![p] = Idle]
    /\ UNCHANGED <<registry, timers, now, test, storeTimers, requests, bookings, ws, currentUsers>>

\* Time passes, in the finer steps.
TickBus ==
  /\ now + BusTimeStep <= MaxTime
  /\ \A p \in Participants : task[p] = Idle
  /\ now' = now + BusTimeStep
  /\ ret' = NoRet
  /\ UNCHANGED <<registry, timers, test, sysVars>>

NextBus ==
  \/ acquireLock
  \/ acquireLockReturn
  \/ releaseLock
  \/ releaseLockReturn
  \/ getLock
  \/ getLockThen
  \/ getLockReturn
  \/ cleanupLocks
  \/ cleanupLocksReturn
  \/ lose
  \/ TickBus

SpecBus == Init /\ [][NextBus]_vars


\* ------------------------------------------ the lock table with two slots
\* Pages acquire and release on any slot of the catalogue (bookSlot and
\* cancelAllPendingBookings do, for the slot clicked); time stands still.
acquireLockAny ==
  \E p \in Participants, s \in SlotIds :
    BusCall("bus.acquireLock", p, s) /\ ret' = NoRet

releaseLockAny ==
  \E p \in Participants, s \in SlotIds :
    BusCall("bus.releaseLock", p, s) /\ ret' = NoRet

NextTable ==
  \/ acquireLockAny
  \/ acquireLockReturn
  \/ releaseLockAny
  \/ releaseLockReturn

SpecTable == Init /\ [][NextTable]_vars

\* ------------------------------------- bookSlot beside calls on other slots
\* Pages book the slot they show while pages acquire locks on the other
\* slots of the catalogue; time stands still and no event is taken.
acquireLockOther ==
  \E p \in Participants, s \in SlotIds \ ShownSlots :
    BusCall("bus.acquireLock", p, s) /\ ret' = NoRet

NextBook ==
  \/ storeBookSlot
  \/ acquireLockThen
  \/ apiBookSlot
  \/ apiThrows
  \/ bookSlotThen
  \/ releaseLockThen
  \/ acquireLockOther
  \/ acquireLockReturn

SpecBook == Init /\ [][NextBook]_vars

\* ------------------------------------------ bookSlot from the user dialog on
\* The pages start without a user; bookSlot is called on any slot id, with
\* or without a user, whatever the store shows for the slot.
NextGuard ==
  \/ setCurrentUser
  \/ bookSlotRefused
  \/ storeBookSlot
  \/ acquireLockThen
  \/ apiBookSlot
  \/ bookSlotThen
  \/ releaseLockThen

SpecGuard == InitNoUser /\ [][NextGuard]_vars

\* ------------------------------------------------- cancelAllPendingBookings
\* The slots of the page's Pending Bookings.
PendingSlots(st) == {s \in SlotIds : st.pending[s]}

\* One turn of the forEach begins: clearOptimisticUpdate, then releaseLock
\* reads the table.
CancelTurn(p, st, s, locks) ==
  /\ SetStore(p, clearOptimisticUpdate(st, s))
  /\ task' = [task EXCEPT ![p] = [Idle EXCEPT !.op = "cancelAll", !.slotId = s,
                                              !.locks = locks]]

\* BookingStore.cancelAllPendingBookings, up to the getLocks() of its
\* first releaseLock.
cancelAllPendingBookings ==
  \E p \in Participants :
    /\ task[p] = Idle
    /\ currentUser(p) # None
    /\ \E s \in PendingSlots(Store(p)) : CancelTurn(p, Store(p), s, booking_locks)
    /\ ret' = NoRet
    /\ UNCHANGED <<registry, timers, now, test, booking_locks, storeTimers,
                   requests, channel, bookings, ws, currentUsers>>

\* ... from releaseLock's decision on the table it read: the table is
\* written back and lock_released emitted if the record was the user's,
\* api.unlockSlot is called, and the forEach goes on to the next Pending
\* Booking or the call returns.
cancelAllThen ==
  \E p \in Participants :
    /\ task[p].op = "cancelAll"
    /\ LET s == task[p].slotId
           r == ReleaseLockResult(task[p].locks, s, currentUser(p))
           released == Event("lock_released", s, r.lockedBy, NoSlot)
           st == emitLocalIf(r.released, Store(p), p, released, now)
           locks == IF r.released THEN r.locks ELSE booking_locks
           u == UnlockSlotResult(slots, bookingLocks, s, currentUser(p)) IN
       /\ booking_locks' = locks
       /\ channel' = sendIf(r.released, channel, p, released)
       /\ slots' = u.slots
       /\ bookingLocks' = u.locks
       /\ IF PendingSlots(st) = {}
          THEN SetStore(p, st) /\ task' = [task EXCEPT ![p] = Idle]
          ELSE \E s2 \in PendingSlots(st) : CancelTurn(p, st, s2, locks)
    /\ ret' = NoRet
    /\ UNCHANGED <<bookingConfirmations, timers, now, test, storeTimers,
                   requests, bookings, ws, currentUsers>>

NextCancel ==
  \/ storeBookSlot
  \/ acquireLockThen
  \/ apiBookSlot
  \/ bookSlotThen
  \/ releaseLockThen
  \/ cancelAllPendingBookings
  \/ cancelAllThen

SpecCancel == Init /\ [][NextCancel]_vars

\* ------------------------------------------------ GlobalEventBus.emit alone
\* A page emits one of the events of the bus: send, then the page's own
\* listeners (emitLocal).  The transport echoes.
ConfirmedFor(userId, t) ==
  [AvailableSlot EXCEPT !.status = BOOKED, !.bookedBy = userId, !.bookedAt = t]

emit ==
  \E p \in Participants, s \in ShownSlots,
     type \in {"lock_acquired", "lock_released", "booking_confirmed"} :
    LET e == Event(type, s, currentUser(p),
                   IF type = "booking_confirmed"
                   THEN ConfirmedFor(currentUser(p), now) ELSE NoSlot) IN
    /\ task[p] = Idle
    /\ channel' = sendEchoed(channel, p, e)
    /\ SetStore(p, emitLocal(Store(p), p, Tagged(e, p), now))
    /\ ret' = NoRet
    /\ UNCHANGED <<registry, timers, now, test, booking_locks, storeTimers,
                   task, requests, bookings, ws, currentUsers>>

NextEcho ==
  \/ emit
  \/ deliver
  \/ lose

SpecEcho == Init /\ [][NextEcho]_vars

\* ------------------------------------------------------- WebSocketService
\* connect(): a new socket replaces the service's socket.
Connecting(w) == [w EXCEPT !.isIntentionallyClosed = FALSE, !.socket = "connecting"]

\* `!this.isIntentionallyClosed && this.reconnectAttempts < this.maxReconnectAttempts`
CanReconnectOnceMore(w) ==
  ~w.isIntentionallyClosed /\ w.reconnectAttempts <= maxReconnectAttempts
CanReconnect(w) ==
  ~w.isIntentionallyClosed /\ w.reconnectAttempts < maxReconnectAttempts

scheduleReconnect(w, t) ==
  [w EXCEPT !.reconnectAttempts = @ + 1, !.reconnectTimer = t + reconnectDelay]

WsStep(w) ==
  /\ ws' = w
  /\ ret' = NoRet
  /\ UNCHANGED <<registry, timers, now, test, booking_locks, storeVars, task,
                 requests, channel, bookings, currentUsers>>

\* The page connects when it starts (App's initApp).
connect ==
  /\ ws.socket = "none"
  /\ WsStep(Connecting(ws))

\* ws.onopen
onopen ==
  /\ ws.socket = "connecting"
  /\ WsStep([ws EXCEPT !.socket = "open", !.reconnectAttempts = 0,
                       !.heartbeat = TRUE])

\* ws.onerror: the connection could not be made, or broke; the browser
\* closes the socket next.
onerror ==
  /\ ws.socket \in {"connecting", "open"}
  /\ WsStep([ws EXCEPT !.socket = "failed"])

\* ws.onclose, of a socket that was open, failed or is being closed.
onclose ==
  /\ ws.socket \in {"open", "failed", "closing"}
  /\ LET closed == [ws EXCEPT !.socket = "closed", !.heartbeat = FALSE] IN
     WsStep(IF CanReconnect(closed) THEN scheduleReconnect(closed, now) ELSE closed)

\* The timer of scheduleReconnect fires, no earlier than it is due.
reconnect ==
  /\ ws.reconnectTimer # NoTime
  /\ ws.reconnectTimer <= now
  /\ WsStep([Connecting(ws) EXCEPT !.reconnectTimer = NoTime])

\* disconnect(): the timer is cleared and the socket, if any, told to close.
DisconnectedKeepingTimer(w) ==
  [w EXCEPT !.isIntentionallyClosed = TRUE, !.heartbeat = FALSE,
            !.socket = IF @ = "closed" THEN "closed" ELSE "closing"]
Disconnected(w) ==
  [w EXCEPT !.isIntentionallyClosed = TRUE, !.heartbeat = FALSE,
            !.reconnectTimer = NoTime,
            !.socket = IF @ = "closed" THEN "closed" ELSE "closing"]

disconnect ==
  /\ ws.socket # "none"
  /\ ~ws.isIntentionallyClosed
  /\ WsStep(Disconnected(ws))

TickWs ==
  /\ now + WsTimeStep <= MaxTime
  /\ now' = now + WsTimeStep
  /\ ret' = NoRet
  /\ UNCHANGED <<registry, timers, test, sysVars>>

NextWs ==
  \/ connect
  \/ onopen
  \/ onerror
  \/ onclose
  \/ reconnect
  \/ disconnect
  \/ TickWs

SpecWs == Init /\ [][NextWs]_vars


\* ----------------------------------------------------------------- claims
Finished(kind) == test.kind = kind /\ test.startAvail /\ test.inflight = {}
Requests == DOMAIN test.results

\* C1: of N >= 2 concurrent bookSlot requests of distinct users on a slot
\* that was Available, exactly one returns success and every other one
\* fails with SLOT_ALREADY_BOOKED or CONFLICT_DETECTED and a conflict
\* descriptor that names the user of the request that succeeded.
C1_ExactlyOneWinner ==
  (Finished("concurrent") /\ Len(test.users) >= 2) =>
    \E w \in Requests :
      /\ test.results[w].success
      /\ \A i \in Requests \ {w} :
           /\ ~test.results[i].success
           /\ test.results[i].code \in {SLOT_ALREADY_BOOKED, CONFLICT_DETECTED}
           /\ test.results[i].hasConflict
           /\ test.results[i].conflictBy = test.users[w]

\* C3: U1's request is processed before U2's on an Available slot: U1 gets
\* success with the slot Booked by U1, U2 gets CONFLICT_DETECTED with a
\* conflict descriptor naming U1.
C3_FirstWinsSecondConflict ==
  Finished("crosstab") =>
    /\ test.results[1].success
    /\ test.results[1].slot.status = BOOKED
    /\ test.results[1].slot.bookedBy = test.users[1]
    /\ ~test.results[2].success
    /\ test.results[2].code = CONFLICT_DETECTED
    /\ test.results[2].hasConflict
    /\ test.results[2].conflictBy = test.users[1]

\* C10: of the requests one user issues one after another on a slot that
\* was Available, the first succeeds and every later one fails.
C10_OnlyFirstClickTakesEffect ==
  Finished("rapid") =>
    /\ test.results[1].success
    /\ \A i \in Requests \ {1} : ~test.results[i].success

\* C2: in the whole system a slot that is Booked by U stays as it is until
\* cancelBooking(slot, U) succeeds, and no bookSlot on it returns success.
C2_BookedStaysBooked ==
  [][\A s \in SlotIds :
       slots[s].status = BOOKED =>
         /\ \/ slots'[s] = slots[s]
            \/ /\ ret'.op = "cancelBooking" /\ ret'.slotId = s
               /\ ret'.userId = slots[s].bookedBy /\ ret'.resp.success
         /\ ~(ret'.op = "bookSlot" /\ ret'.slotId = s /\ ret'.resp.success)]_vars

\* The request of one participant's store was refused for a slot Booked by
\* another participant.
C2_Witness ==
  /\ ret.op = "bookSlot" /\ ret.resp.code = SLOT_ALREADY_BOOKED
  /\ \E p \in Participants :
       ret.resp.conflictBy = currentUser(p) /\ ret.userId # currentUser(p)

\* Nothing is under way that could still change participant p's view.
Settled(p) ==
  /\ requests = EmptyBag
  /\ \A q \in Participants : task[q] = Idle
  /\ channel[p] = <<>>
  /\ \A s \in SlotIds : ~pendingBookings[p][s]

\* C4: once the authority has a slot Booked, every participant's view of the
\* slot becomes Booked with the authority's bookedBy, without a reload: a
\* participant for whom nothing is under way any more sees it so.
C4_ViewsFollowAuthority ==
  \A p \in Participants, s \in SlotIds :
    (Settled(p) /\ slots[s].status = BOOKED) =>
      /\ storeSlots[p][s].status = BOOKED
      /\ storeSlots[p][s].bookedBy = slots[s].bookedBy

BookReturned == ret.op = "bookSlot"
Known(s) == s \in SlotIds

\* C5: a slot becomes Booked by X only through a bookSlot request of X, and
\* only from Available or from Locked by X; a bookSlot request that fails
\* leaves the slot as it was.
C5_BookedOnlyByRequester ==
  [][/\ \A s \in SlotIds :
          (slots[s].status # BOOKED /\ slots'[s].status = BOOKED) =>
            /\ ret'.op = "bookSlot" /\ ret'.slotId = s
            /\ ret'.userId = slots'[s].bookedBy
            /\ \/ slots[s].status = AVAILABLE
               \/ slots[s].status = LOCKED /\ slots[s].lockedBy = ret'.userId
     /\ (ret'.op = "bookSlot" /\ ~ret'.resp.success) => slots' = slots]_vars

\* C6: bookSlot returns SLOT_NOT_FOUND for an unknown slot id,
\* SLOT_ALREADY_BOOKED with the slot's bookedBy/bookedAt as the conflict
\* descriptor for a Booked slot, SLOT_LOCKED_BY_OTHER for a slot Locked by
\* another user, and in these cases leaves slots, locks and confirmations
\* unchanged.
C6_RefusalsLeaveRegistry ==
  [][ret'.op = "bookSlot" =>
       LET s == ret'.slotId
           r == ret'.resp IN
       /\ ~Known(s) => r.code = SLOT_NOT_FOUND
       /\ (Known(s) /\ slots[s].status = BOOKED) =>
            /\ r.code = SLOT_ALREADY_BOOKED /\ r.hasConflict
            /\ r.conflictBy = slots[s].bookedBy /\ r.conflictAt = slots[s].bookedAt
       /\ (Known(s) /\ slots[s].status = LOCKED /\ slots[s].lockedBy # ret'.userId) =>
            r.code = SLOT_LOCKED_BY_OTHER
       /\ (\/ ~Known(s)
           \/ slots[s].status = BOOKED
           \/ slots[s].status = LOCKED /\ slots[s].lockedBy # ret'.userId) =>
            ~r.success /\ UNCHANGED registry]_vars

C6_Witness == BookReturned /\ ret.resp.code = SLOT_LOCKED_BY_OTHER

\* C7: when a failed bookSlot returns a conflict descriptor, the slot is
\* Booked in the registry with the descriptor's bookedBy and bookedAt.
C7_ConflictNamesHolder ==
  (BookReturned /\ ~ret.resp.success /\ ret.resp.hasConflict) =>
    /\ slots[ret.slotId].status = BOOKED
    /\ slots[ret.slotId].bookedBy = ret.resp.conflictBy
    /\ slots[ret.slotId].bookedAt = ret.resp.conflictAt

C7_Witness == BookReturned /\ ret.resp.code = CONFLICT_DETECTED /\ ret.resp.hasConflict

\* C8: in every slot of the registry at most one of lockedBy and bookedBy
\* is set, bookedAt is set iff the slot is Booked, lockedAt iff it is Locked.
C8_SlotFieldsConsistent ==
  \A s \in SlotIds :
    /\ ~(slots[s].lockedBy # None /\ slots[s].bookedBy # None)
    /\ slots[s].bookedAt # NoTime <=> slots[s].status = BOOKED
    /\ slots[s].lockedAt # NoTime <=> slots[s].status = LOCKED

\* A slot booked by the user who held the authority's lock on it.
C8_Witness ==
  \E s \in SlotIds :
    /\ slots[s].status = BOOKED
    /\ bookingLocks[s].userId = slots[s].bookedBy

\* C9: a successful bookSlot on a slot Locked by the requester returns, and
\* stores, a slot with lockedBy, lockedAt and lockedReason cleared and
\* bookedBy/bookedAt set.
C9_BookingClearsLockFields ==
  [][(/\ ret'.op = "bookSlot" /\ ret'.resp.success
      /\ slots[ret'.slotId].status = LOCKED
      /\ slots[ret'.slotId].lockedBy = ret'.userId) =>
       /\ ret'.resp.slot = slots'[ret'.slotId]
       /\ ret'.resp.slot.lockedBy = None
       /\ ret'.resp.slot.lockedAt = NoTime
       /\ ret'.resp.slot.lockedReason = None
       /\ ret'.resp.slot.bookedBy = ret'.userId
       /\ ret'.resp.slot.bookedAt # NoTime]_vars

\* -------------------------------------------------- claims on the lock table
AcquireReturned == ret.op = "acquireLock"

\* The record a returning bus call had read for its slot.
ReadRecord(r) == r.list[1]
HeldByOther(lock, userId) == lock # NoLock /\ lock.userId # userId
Age(lock) == now - lock.lockedAt
Room(q) == Len(channel[q]) < MaxChannel

\* C11: acquireLock(slot, B) called while the record of the slot is held by
\* another holder A and is live (age <= 30) returns false, leaves the lock
\* table as it is and broadcasts nothing.
C11_RefusedWhileLive ==
  [][ret'.op = "acquireLock" =>
       LET existing == ReadRecord(ret') IN
       (HeldByOther(existing, ret'.userId) /\ Age(existing) <= 30) =>
         /\ ~ret'.resp.success
         /\ booking_locks' = booking_locks
         /\ channel' = channel]_vars

C11_Witness ==
  /\ AcquireReturned /\ ~ret.resp.success
  /\ HeldByOther(ReadRecord(ret), ret.userId)
  /\ booking_locks[ret.slotId] = ReadRecord(ret)

\* C12: acquireLock(slot, A) called while A holds an unexpired record of the
\* slot returns true and sets the record's acquisition time to now.
C12_RenewalBumpsTime ==
  [][ret'.op = "acquireLock" =>
       LET existing == ReadRecord(ret') IN
       (existing # NoLock /\ existing.userId = ret'.userId /\ Age(existing) <= 30) =>
         /\ ret'.resp.success
         /\ booking_locks'[ret'.slotId] = [userId |-> ret'.userId, lockedAt |-> now]]_vars

C12_Witness ==
  /\ AcquireReturned /\ ret.resp.success
  /\ ReadRecord(ret).userId = ret.userId
  /\ ReadRecord(ret).lockedAt < now
  /\ booking_locks[ret.slotId].lockedAt = now

\* C13 as stated: a record acquired by A at t and neither released nor
\* renewed is acquirable by another holder B at every t' with t' - t >= 30,
\* t' - t = 30 included.
C13_AcquirableFromTTL ==
  [][ret'.op = "acquireLock" =>
       LET existing == ReadRecord(ret') IN
       (HeldByOther(existing, ret'.userId) /\ Age(existing) >= 30) =>
         ret'.resp.success]_vars

\* C13 amended: the record is acquirable by B at every t' with t' - t > 30;
\* at t' - t = 30 it is still live and acquireLock(slot, B) returns false.
C13_AcquirableAfterTTL ==
  [][ret'.op = "acquireLock" =>
       LET existing == ReadRecord(ret') IN
       /\ (HeldByOther(existing, ret'.userId) /\ Age(existing) > 30) =>
            /\ ret'.resp.success
            /\ booking_locks'[ret'.slotId] = [userId |-> ret'.userId, lockedAt |-> now]
       /\ (HeldByOther(existing, ret'.userId) /\ Age(existing) = 30) =>
            ~ret'.resp.success]_vars

C13_Witness ==
  /\ AcquireReturned /\ ret.resp.success
  /\ HeldByOther(ReadRecord(ret), ret.userId)
  /\ Age(ReadRecord(ret)) > 30

\* C14: when cleanupLocks evicts a dead record it broadcasts lock_released:
\* every other page whose channel has room is sent that event.
C14_SweepBroadcastsRelease ==
  [][(ret'.op = "cleanupLocks" /\ ret'.resp.success) =>
       \A q \in Participants :
         (currentUser(q) # ret'.userId /\ Room(q)) =>
           /\ Len(channel'[q]) = Len(channel[q]) + 1
           /\ channel'[q][Len(channel'[q])].type = "lock_released"]_vars

\* C15: a live record held by A leaves the table only by a release on behalf
\* of A; releaseLock(slot, B) on a record of another holder changes and
\* broadcasts nothing; a release of the caller's own record deletes it and
\* broadcasts lock_released.
C15_OnlyHolderReleases ==
  [][/\ \A s \in SlotIds :
          LET lock == booking_locks[s] IN
          (lock # NoLock /\ Age(lock) <= 30 /\ booking_locks'[s].userId # lock.userId) =>
            /\ ret'.op = "releaseLock" /\ ret'.slotId = s
            /\ ret'.userId = lock.userId
     /\ ret'.op = "releaseLock" =>
          LET existing == ReadRecord(ret') IN
          /\ HeldByOther(existing, ret'.userId) =>
               booking_locks' = booking_locks /\ channel' = channel
          /\ (existing # NoLock /\ existing.userId = ret'.userId) =>
               /\ booking_locks'[ret'.slotId] = NoLock
               /\ \A q \in Participants :
                    (currentUser(q) # ret'.userId /\ Room(q)) =>
                      /\ Len(channel'[q]) = Len(channel[q]) + 1
                      /\ channel'[q][Len(channel'[q])].type = "lock_released"]_vars

\* C16: no holder is granted the lock of a slot while the table holds a live
\* record of the slot for another holder, however the pages' reads and
\* writes of the table interleave.
C16_OneHolder ==
  [][(ret'.op = "acquireLock" /\ ret'.resp.success) =>
       LET lock == booking_locks[ret'.slotId] IN
       ~(HeldByOther(lock, ret'.userId) /\ Age(lock) <= 30)]_vars

\* --------------------------------------------------- claims on the store
\* The step in which page p's bookSlot takes a refusal of its request.
FailureTaken(p) ==
  /\ task[p] = Idle
  /\ task'[p].op = "releaseLock"
  /\ ~task'[p].confirm

\* The timer tm fires in this step.
Fires(tm) ==
  /\ CopiesIn(tm, storeTimers) > 0
  /\ storeTimers' = storeTimers (-) SetToBag({tm})

\* Page p handles (or misses) the event at the head of its channel.
Receives(p) == task' = task /\ channel'[p] # channel[p]

StoreSlotUnchanged(p, s) ==
  /\ storeSlots'[p][s] = storeSlots[p][s]
  /\ pendingBookings'[p][s] = pendingBookings[p][s]
  /\ optimisticUpdates'[p][s] = optimisticUpdates[p][s]

\* C17: handleBookingFailure after a speculative update restores the value
\* the slot had before the update: status Available, no lockedBy, no
\* lockedAt, everything else as it was; a rollback with no snapshot left
\* changes nothing.
C17_RollbackRestores ==
  [][\A p \in Participants :
       FailureTaken(p) =>
         LET s == task'[p].slotId
             snapshot == optimisticUpdates[p][s] IN
         /\ snapshot # NoSlot =>
              storeSlots'[p][s] = [snapshot EXCEPT !.status = AVAILABLE,
                                                   !.lockedBy = None,
                                                   !.lockedAt = NoTime]
         /\ snapshot = NoSlot => storeSlots'[p][s] = storeSlots[p][s]]_vars

\* C18: when the pending timer fires on a slot whose request has had no
\* outcome, the slot is Available in the page's view and its Pending
\* Booking is removed, whatever events the page received in between.
C18_TimeoutClearsPending ==
  [][\A tm \in BagToSet(storeTimers) :
       (/\ Fires(tm)
        /\ pendingBookings[tm.p][tm.slotId]
        /\ \E r \in RequestsOf(tm.p) : r.slotId = tm.slotId) =>
         /\ storeSlots'[tm.p][tm.slotId].status = AVAILABLE
         /\ ~pendingBookings'[tm.p][tm.slotId]]_vars

\* C19: a pending timer acts only on the attempt that armed it: fired while
\* the slot's pending attempt is a later one, it leaves the slot, its
\* Pending Booking and its Optimistic Snapshot as they are.
C19_TimerOwnAttemptOnly ==
  [][\A tm \in BagToSet(storeTimers) :
       (/\ Fires(tm)
        /\ optimisticUpdates[tm.p][tm.slotId] # NoSlot
        /\ optimisticUpdates[tm.p][tm.slotId].lockedAt + maxPendingTime # tm.due) =>
         StoreSlotUnchanged(tm.p, tm.slotId)]_vars

\* C20: an event of a peer (lock_acquired, lock_released, booking_confirmed)
\* changes neither the slot, nor the Pending Booking, nor the Optimistic
\* Snapshot of a slot on which the receiving page has a Pending Booking.
C20_PeerEventsSparePending ==
  [][\A p \in Participants, s \in SlotIds :
       (Receives(p) /\ pendingBookings[p][s]) => StoreSlotUnchanged(p, s)]_vars


\* C21: in every state of a BookingStore the slots with a Pending Booking
\* are the slots with an Optimistic Snapshot.
C21_PendingIffSnapshot ==
  \A p \in Participants, s \in SlotIds :
    pendingBookings[p][s] <=> optimisticUpdates[p][s] # NoSlot


\* The step in which page p's bookSlot takes a successful outcome.
SuccessTaken(p) ==
  /\ task[p] = Idle
  /\ task'[p].op = "releaseLock"
  /\ task'[p].confirm

BookedBy(slot, userId) == slot.status = BOOKED /\ slot.bookedBy = userId

\* C22: on a successful outcome bookSlot replaces the page's slot by the
\* slot of the outcome, Booked by the page's user, and removes the Pending
\* Booking and the Optimistic Snapshot; the slot stays so through the lock
\* release and the booking_confirmed broadcast that follow.
C22_CommitKeepsBooked ==
  [][\A p \in Participants :
       /\ SuccessTaken(p) =>
            LET s == task'[p].slotId IN
            /\ storeSlots'[p][s] = task'[p].slot
            /\ BookedBy(storeSlots'[p][s], currentUser(p))
            /\ ~pendingBookings'[p][s]
            /\ optimisticUpdates'[p][s] = NoSlot
       /\ (task[p].op = "releaseLock" /\ task[p].confirm) =>
            LET s == task[p].slotId IN
            /\ storeSlots'[p][s] = storeSlots[p][s]
            /\ BookedBy(storeSlots'[p][s], currentUser(p))
            /\ ~pendingBookings'[p][s]
            /\ optimisticUpdates'[p][s] = NoSlot]_vars

C22_Witness ==
  \E p, q \in Participants, s \in ShownSlots :
    /\ task[p] = Idle
    /\ BookedBy(storeSlots[p][s], currentUser(p))
    /\ \E i \in 1 .. Len(channel[q]) :
         /\ channel[q][i].type = "booking_confirmed"
         /\ channel[q][i].userId = currentUser(p)
         /\ channel[q][i].slotId = s


\* The step in which page p's bookSlot catches the rejection of its call.
ExceptionTaken(p) ==
  /\ FailureTaken(p)
  /\ \E r \in RequestsOf(p) :
       /\ r.resp = Thrown
       /\ requests' = requests (-) SetToBag({r})

\* C23: when the authority call throws, bookSlot rolls the speculative state
\* back (the slot is no longer shown Locked by the page's user), removes the
\* Pending Booking and the Optimistic Snapshot and goes on to release the
\* advisory lock, as for a refusal.
C23_ExceptionRollsBack ==
  [][\A p \in Participants :
       ExceptionTaken(p) =>
         LET s == task'[p].slotId IN
         /\ ~(storeSlots'[p][s].status = LOCKED
              /\ storeSlots'[p][s].lockedBy = currentUser(p))
         /\ ~pendingBookings'[p][s]
         /\ optimisticUpdates'[p][s] = NoSlot]_vars


\* ----------------------------------------------- claims on the authority
\* C25: cancelBooking(slot, user) succeeds exactly when the slot is Booked
\* by user, and then sets it Available with bookedBy and bookedAt cleared;
\* for an unknown slot, a slot booked by someone else or a slot that is not
\* Booked it returns success = false and leaves the registry unchanged.
C25_CancelOnlyByHolder ==
  [][ret'.op = "cancelBooking" =>
       LET s == ret'.slotId
           u == ret'.userId IN
       /\ ret'.resp.success <=>
            (s \in SlotIds /\ slots[s].status = BOOKED /\ slots[s].bookedBy = u)
       /\ ret'.resp.success =>
            slots' = [slots EXCEPT ![s] = [@ EXCEPT !.status = AVAILABLE,
                                                    !.bookedBy = None,
                                                    !.bookedAt = NoTime]]
       /\ ~ret'.resp.success => registry' = registry]_vars

C25_Witness ==
  /\ ret.op = "cancelBooking" /\ ret.resp.success
  /\ slots[ret.slotId].status = AVAILABLE
  /\ slots[ret.slotId].bookedBy = None


\* C26: an automatic release ends a lock only when 30 time units have
\* passed since the lockSlot that took it, and leaves the slot Available.
C26_AutoReleaseAfterOwnTTL ==
  [][(ret'.op = "autoRelease" /\ ret'.resp.success) =>
       LET s == ret'.slotId IN
       /\ now - bookingLocks[s].lockedAt >= 30
       /\ slots'[s].status = AVAILABLE]_vars


\* -------------------------------------------- claims on the push channel
Closes == ws.socket # "closed" /\ ws'.socket = "closed"

\* C28: reconnectAttempts never exceeds 5; an unexpected close with fewer
\* than 5 attempts made schedules one more, 3 time units after the close,
\* and the attempt is not made earlier; the close after the 5th attempt
\* schedules none; an open resets reconnectAttempts to 0.
C28_ReconnectCeiling ==
  [][/\ ws'.reconnectAttempts <= 5
     /\ (Closes /\ ~ws.isIntentionallyClosed /\ ws.reconnectAttempts < 5) =>
          /\ ws'.reconnectAttempts = ws.reconnectAttempts + 1
          /\ ws'.reconnectTimer = now + 3
     /\ (Closes /\ ws.reconnectAttempts = 5) =>
          /\ ws'.reconnectAttempts = 5
          /\ ws'.reconnectTimer = NoTime
     /\ (ws.socket = "closed" /\ ws'.socket = "connecting") =>
          ws.reconnectTimer # NoTime /\ ws.reconnectTimer <= now
     /\ (ws.socket # "open" /\ ws'.socket = "open") =>
          ws'.reconnectAttempts = 0]_vars

\* The service has given up: the 5th attempt failed and nothing is scheduled.
C28_Witness ==
  /\ ws.socket = "closed"
  /\ ~ws.isIntentionallyClosed
  /\ ws.reconnectAttempts = 5
  /\ ws.reconnectTimer = NoTime
  /\ now >= 5 * 3


\* ------------------------------------------------- claims on the event bus
\* Page p takes a copy of the event at the head of its channel.
Takes(p) ==
  /\ channel[p] # <<>>
  /\ \/ channel'[p] = Tail(channel[p])
     \/ /\ Len(channel'[p]) = Len(channel[p])
        /\ Head(channel'[p]).copies < Head(channel[p]).copies

\* Page p has emitted in this step and the transport kept its copy.
Emitted(p) ==
  /\ Len(channel'[p]) = Len(channel[p]) + 1
  /\ channel'[p][Len(channel'[p])].from = sessionId(p)

PageUnchanged(p) ==
  /\ storeSlots'[p] = storeSlots[p]
  /\ pendingBookings'[p] = pendingBookings[p]
  /\ optimisticUpdates'[p] = optimisticUpdates[p]

\* C29: the listeners of a page run once for an event the page emits, in
\* the emit itself; a copy carrying the page's own session tag that comes
\* back over the transport runs none of them.
C29_OwnEchoIgnored ==
  [][\A p \in Participants :
       /\ (Takes(p) /\ Head(channel[p]).from = sessionId(p)) => PageUnchanged(p)
       /\ Emitted(p) =>
            LET e == channel'[p][Len(channel'[p])]
                st == emitLocal(Store(p), p, e, now) IN
            /\ storeSlots'[p] = st.slots
            /\ pendingBookings'[p] = st.pending
            /\ optimisticUpdates'[p] = st.optimistic]_vars

\* A copy of the page's own lock_released has come back and been ignored
\* while the page shows the slot Locked.
C29_Witness ==
  \E p \in Participants :
    /\ channel[p] # <<>>
    /\ Head(channel[p]).from = sessionId(p)
    /\ Head(channel[p]).copies = 1
    /\ Head(channel[p]).type = "lock_released"
    /\ storeSlots[p][Head(channel[p]).slotId].status = LOCKED


\* ------------------------------------------------ claims on two slots
OtherSlots(s) == SlotIds \ {s}

UnderWay(p, s) ==
  \/ task[p].op \in {"acquireLock", "releaseLock"} /\ task[p].slotId = s
  \/ \E r \in RequestsOf(p) : r.slotId = s

\* C24: the lock table holds a record of a page's user for a slot only
\* while a bookSlot of that page on that slot is under way: once bookSlot
\* has resolved, on the success, failure or exception path, no record of
\* the attempt is in the table.  (The slots shown are locked by bookSlot
\* alone here.)
C24_LockReleasedOnEveryPath ==
  \A p \in Participants, s \in ShownSlots :
    booking_locks[s].userId = currentUser(p) => UnderWay(p, s)


\* ------------------------------------------------ claims on bookSlot's checks
\* The page's acquireLock decides on the table it read, inside bookSlot.
Decides(p) == task[p].op = "acquireLock" /\ task'[p] = Idle

Granted(p) ==
  AcquireLockResult(task[p].locks, task[p].slotId, currentUser(p), now).granted

\* A request of the page goes to the authority, or a Pending Booking or an
\* Optimistic Snapshot is made.
Speculates(p) ==
  \/ \E r \in RequestsOf(p)' : r.stage = "sent" /\ r \notin RequestsOf(p)
  \/ \E s \in SlotIds :
       \/ ~pendingBookings[p][s] /\ pendingBookings'[p][s]
       \/ optimisticUpdates[p][s] = NoSlot /\ optimisticUpdates'[p][s] # NoSlot

\* C31: bookSlot reaches acquireLock only with a current user, on a slot the
\* store knows and shows Available; a call that fails one of these checks
\* returns success=false and changes nothing, the lock table included; a
\* call whose acquireLock is refused sends no request and leaves the store
\* as it was; and a request is sent, or a Pending Booking or Optimistic
\* Snapshot made, only in the step where acquireLock grants the lock.
C31_NothingBeforeGrant ==
  [][\A p \in Participants :
       /\ (task[p] = Idle /\ task'[p].op = "acquireLock") =>
            /\ currentUser(p) # None
            /\ task'[p].slotId \in DOMAIN storeSlots[p]
            /\ storeSlots[p][task'[p].slotId].status = AVAILABLE
       /\ ret'.op = "store.bookSlot" =>
            /\ ~ret'.resp.success
            /\ UNCHANGED <<registry, booking_locks, storeVars, requests, task>>
       /\ (Decides(p) /\ ~Granted(p)) =>
            /\ UNCHANGED <<registry, storeVars, requests>>
       /\ Speculates(p) => (Decides(p) /\ Granted(p))]_vars

\* A logged-in page's bookSlot has been refused on a slot it shows Locked
\* by its own attempt, whose request is with the authority.
C31_Witness ==
  /\ ret.op = "store.bookSlot"
  /\ ret.resp.code = "not bookable"
  /\ \E p \in Participants :
       /\ ret.userId = currentUser(p)
       /\ storeSlots[p][ret.slotId].status = LOCKED
       /\ \E r \in RequestsOf(p) : r.slotId = ret.slotId


\* ------------------------------------------------ claims on the authority
\* C32: when getAvailableSlots returns, each slot of the list it returns is
\* the registry's value for that slot, and none is Locked with a lock older
\* than the 30 units after which the call evicts it.
C32_ListReflectsEviction ==
  ret.op = "getAvailableSlots" =>
    \A s \in SlotIds :
      /\ ret.list[s] = slots[s]
      /\ ~(ret.list[s].status = LOCKED /\ now - ret.list[s].lockedAt > LockTimeoutAPI)

Releasers == {"unlockSlot", "autoRelease", "getAvailableSlots"}

\* C33: unlockSlot succeeds only on a slot whose lock record is the
\* caller's, and a refused unlockSlot leaves the registry as it is; and
\* neither unlockSlot, nor the auto-release timer, nor the eviction of
\* expired locks changes a slot that is Booked.
C33_UnlockOnlyByHolder ==
  [][/\ ret'.op = "unlockSlot" =>
          IF ret'.resp.success
          THEN /\ ret'.slotId \in SlotIds
               /\ bookingLocks[ret'.slotId].userId = ret'.userId
          ELSE UNCHANGED registry
     /\ ret'.op \in Releasers =>
          \A s \in SlotIds : slots[s].status = BOOKED => slots'[s] = slots[s]]_vars

\* The timer's unlockSlot has removed the record of a lock taken before the
\* slot was booked, and the slot is still Booked.
C33_Witness ==
  /\ ret.op = "autoRelease"
  /\ ret.resp.success
  /\ slots[ret.slotId].status = BOOKED
  /\ bookingLocks[ret.slotId] = NoLock

\* The lock table's record of the slot is the lock the slot shows.
RecordMatchesSlot(S, L, s) ==
  L[s] # NoLock => (S[s].status = LOCKED /\ S[s].lockedBy = L[s].userId)

\* C34: the authority's lock table holds a record for a slot only while the
\* slot is Locked by the record's user, so a lockSlot on a slot that is
\* Available is never refused.
C34_LockRecordOnlyWhileLocked ==
  [][/\ \A s \in SlotIds : RecordMatchesSlot(slots', bookingLocks', s)
     /\ (ret'.op = "lockSlot" /\ ret'.slotId \in SlotIds
           /\ slots[ret'.slotId].status = AVAILABLE) => ret'.resp.success]_vars


\* ------------------------------------------------ claims on the peers' views
\* C35: once the authority has booked a slot for a participant, no event of
\* that participant's announcement (lock_released, booking_confirmed) that
\* a peer takes makes the peer's view of the slot Available: a view that
\* shows the slot Locked goes to Booked without showing Available.
C35_PeerNeverSeesAvailable ==
  [][\A p \in Participants, s \in ShownSlots : \A w \in Participants \ {p} :
       (/\ slots[s].status = BOOKED
        /\ slots[s].bookedBy = currentUser(w)
        /\ storeSlots[p][s].status = LOCKED
        /\ Takes(p)
        /\ Head(channel[p]).from = sessionId(w)
        /\ Head(channel[p]).slotId = s
        /\ Head(channel[p]).type \in {"lock_released", "booking_confirmed"})
       => storeSlots'[p][s].status # AVAILABLE]_vars

\* How many bookSlot requests of page p for the slot are with the authority.
Outstanding(p, s) ==
  LET r == Request(p, s, "sent", NoResponse) IN CopiesIn(r, requests)

\* C36: a participant never has two bookSlot requests for one slot with the
\* authority at once, not even after the pending timeout has put the slot
\* back to Available in its view.
C36_OneRequestPerSlot ==
  \A p \in Participants, s \in ShownSlots : Outstanding(p, s) <= 1

\* A turn of cancelAllPendingBookings for a slot ends in this step.
TurnEnds(p) == task[p].op = "cancelAll" /\ task'[p] # task[p]

\* C37: when cancelAllPendingBookings returns the page has no Pending
\* Booking and no Optimistic Snapshot, and for each slot it cancelled the
\* lock table holds no record of the page's user and the page no longer
\* shows the slot Locked by its own user.
C37_CancelAllClearsEverything ==
  [][\A p \in Participants :
       /\ (TurnEnds(p) /\ task'[p] = Idle) =>
            \A s \in SlotIds : /\ ~pendingBookings'[p][s]
                               /\ optimisticUpdates'[p][s] = NoSlot
       /\ TurnEnds(p) =>
            LET s == task[p].slotId IN
            /\ booking_locks'[s].userId # currentUser(p)
            /\ ~(/\ storeSlots'[p][s].status = LOCKED
                 /\ storeSlots'[p][s].lockedBy = currentUser(p))]_vars


\* ------------------------------------------------ claims on the push channel
\* C38: disconnect() leaves no reconnect timer armed, and from then on no
\* reconnect is scheduled or attempted: the attempts are not counted up, no
\* timer is armed and no new socket is opened, whether disconnect() came
\* while a timer was armed or while the socket of an attempt was opening.
C38_NoReconnectAfterDisconnect ==
  [][/\ ws'.isIntentionallyClosed => ws'.reconnectTimer = NoTime
     /\ ws.isIntentionallyClosed =>
          /\ ws'.isIntentionallyClosed
          /\ ws'.reconnectAttempts = ws.reconnectAttempts
          /\ ws'.socket # "connecting"]_vars

\* disconnect() was called after a reconnect had been scheduled and before
\* any socket opened again, and the socket it closed has closed.
C38_Witness ==
  /\ ws.isIntentionallyClosed
  /\ ws.reconnectAttempts > 0
  /\ ws.socket = "closed"

====
